---- MODULE Spec2Model ----
(***************************************************************************)
(* Quantity ledger and reservation handling of akwa_inventory.              *)
(*                                                                         *)
(* The database holds one inventory item row (total_quantity,              *)
(* available_quantity, reserved_quantity) and the InventoryReservation      *)
(* rows.  Every request first loads the item row into an in-memory model   *)
(* instance (`self`), works on that instance, and `save()` writes every    *)
(* field of the instance back to the row.  No request runs inside a        *)
(* transaction or takes a row lock, so the steps of different requests     *)
(* interleave between their database accesses.                             *)
(*                                                                         *)
(* quantity_reserved and the three item counters are PositiveIntegerFields: *)
(* the database refuses a row that holds a negative value (IntegrityError).*)
(***************************************************************************)
EXTENDS Integers, FiniteSets, Sequences, TLC

\* ---------------------------------------------------------------- bounds
NumRequests == 2      \* requests served (each one handler invocation)
MaxTotal == 2         \* largest total_quantity an item is created with
MaxQty == 2           \* largest quantity a request asks for
MaxTime == 2          \* hours the clock is followed for
ScenarioSteps == 3    \* requests served one after the other in the scenario
ScenarioTotal == 10   \* total_quantity of the scenario's item
ScenarioQty == 3      \* quantity every scenario request carries
NumKeys == 2          \* (user_address, profile_id) pairs whose KYC is checked
NumProfiles == 2      \* tenants (profile_id values)
NumItems == 2         \* rows of the item table
NumReservations == 2  \* reservation ids the API hands out
MaxCalls == 3         \* requests to the CRUD API that are followed
MaxEntries == 2       \* longest `updates` list of a bulk_update request
MaxAlerts == 2        \* most alert rows kept per item

Requests == 1..NumRequests

\* ------------------------------------------------- reservation statuses
\* InventoryReservation.status choices
Statuses == {"pending", "confirmed", "active", "expired", "cancelled"}

\* the four quantity methods of BaseInventoryItem
Methods == {"reserve", "release_reservation", "occupy", "make_available"}

\* quantities a caller of a model method passes
LedgerQuantities == 0..MaxQty

\* `quantity` values a reserve request may carry in request.data
RequestQuantities == (-1)..MaxQty

\* `expiry_hours` values a reserve request may carry in request.data
ExpiryHours == {1}

VARIABLES
    item,          \* the item's database row
    reservations,  \* InventoryReservation rows, keyed by the creating request
    req,           \* per request: handler position, inputs, in-memory instance
    initial,       \* the item row as first created (never changes)
    now,           \* timezone.now(), in hours
    audit,         \* the last log_inventory_action call and what it returned
    cache,         \* django cache entries kyc_status_<user>_<profile>
    chain,         \* what the PermissionManager contract answers to checkKYC
    kyc,           \* the last check_kyc_status / verify_kyc call and its result
    inventory,     \* the item table of all tenants, by item id
    reservation_rows, \* the InventoryReservation table of all tenants, by id
    alerts,        \* per item id: unresolved low_stock InventoryAlert rows
    bulk_operation, \* the InventoryBulkOperation row of the last bulk_update
    call           \* the last request to the CRUD API and its response

\* the rows and handler state of the reservation ledger
ledgerVars == <<item, reservations, req, initial, now>>

\* the collaborators outside the ledger
\* the tables behind the CRUD API
apiVars == <<inventory, reservation_rows, alerts, bulk_operation, call>>

extVars == <<audit, cache, chain, kyc, apiVars>>

vars ==
    <<item, reservations, req, initial, now, audit, cache, chain, kyc,
      inventory, reservation_rows, alerts, bulk_operation, call>>

\* ------------------------------------------------------------ the ledger
Result(ret, saved, self) == [ret |-> ret, saved |-> saved, self |-> self]

\* reserve with the guard written `>`: the last available unit is refused
reserve_strict_guard(self, quantity) ==
    IF self.available_quantity > quantity
    THEN Result("True", TRUE,
                [self EXCEPT !.available_quantity = @ - quantity,
                             !.reserved_quantity = @ + quantity])
    ELSE Result("False", FALSE, self)

\* reserve that takes the units out of total_quantity instead of moving them
\* to reserved_quantity
reserve_takes_from_total(self, quantity) ==
    IF self.available_quantity >= quantity
    THEN Result("True", TRUE,
                [self EXCEPT !.available_quantity = @ - quantity,
                             !.total_quantity = @ - quantity])
    ELSE Result("False", FALSE, self)

\* BaseInventoryItem.reserve
reserve(self, quantity) ==
    IF self.available_quantity >= quantity
    THEN Result("True", TRUE,
                [self EXCEPT !.available_quantity = @ - quantity,
                             !.reserved_quantity = @ + quantity])
    ELSE Result("False", FALSE, self)

\* release_reservation that forgets to give the units back to available
release_reservation_not_returned(self, quantity) ==
    IF self.reserved_quantity >= quantity
    THEN Result("True", TRUE, [self EXCEPT !.reserved_quantity = @ - quantity])
    ELSE Result("False", FALSE, self)

\* BaseInventoryItem.release_reservation
release_reservation(self, quantity) ==
    IF self.reserved_quantity >= quantity
    THEN Result("True", TRUE,
                [self EXCEPT !.reserved_quantity = @ - quantity,
                             !.available_quantity = @ + quantity])
    ELSE Result("False", FALSE, self)

\* occupy that gives the units back to available, as a release does
occupy_returns_units(self, quantity) ==
    IF self.reserved_quantity >= quantity
    THEN Result("True", TRUE,
                [self EXCEPT !.reserved_quantity = @ - quantity,
                             !.available_quantity = @ + quantity])
    ELSE Result("False", FALSE, self)

\* occupy that saves its instance also when the guard fails
occupy_saves_on_failure(self, quantity) ==
    IF self.reserved_quantity >= quantity
    THEN Result("True", TRUE, [self EXCEPT !.reserved_quantity = @ - quantity])
    ELSE Result("False", TRUE, self)

\* BaseInventoryItem.occupy
occupy(self, quantity) ==
    IF self.reserved_quantity >= quantity
    THEN Result("True", TRUE, [self EXCEPT !.reserved_quantity = @ - quantity])
    ELSE Result("False", FALSE, self)

\* make_available that stores the quantity instead of adding it
make_available_overwrites(self, quantity) ==
    Result("None", TRUE, [self EXCEPT !.available_quantity = quantity])

\* BaseInventoryItem.make_available: no guard, no return value
make_available(self, quantity) ==
    Result("None", TRUE, [self EXCEPT !.available_quantity = @ + quantity])

CallMethod(method, self, quantity) ==
    CASE method = "reserve" -> reserve(self, quantity)
      [] method = "release_reservation" -> release_reservation(self, quantity)
      [] method = "occupy" -> occupy(self, quantity)
      [] method = "make_available" -> make_available(self, quantity)

\* Model.save(): every field of the instance is written to the row
SaveItem(result) == IF result.saved THEN result.self ELSE item

\* ------------------------------------------------------------ the state
NoItem == [total_quantity |-> 0, available_quantity |-> 0, reserved_quantity |-> 0]

NoReservation ==
    [exists |-> FALSE, quantity_reserved |-> 0, status |-> "none", expiry_date |-> 0]

IdleRequest ==
    [pc |-> "idle", op |-> "none", method |-> "none", quantity |-> 0,
     reservation_id |-> 0, self |-> NoItem, held |-> 0,
     ret |-> "none", response |-> "none"]

\* items are created with reserved_quantity = 0 and no reservations
InitialItems ==
    {i \in [total_quantity : 1..MaxTotal, available_quantity : 0..MaxTotal,
            reserved_quantity : {0}] : i.available_quantity <= i.total_quantity}

\* no notifier call and no KYC call has been made, nothing is cached
NoAudit == [seq |-> 0, contract |-> FALSE, fault |-> "none", ret |-> "none"]

KycKeys == 1..NumKeys

NoKyc ==
    [seq |-> 0, op |-> "none", key |-> 0, contract |-> FALSE, ret |-> "none",
     consulted |-> FALSE, raised |-> FALSE]

Profiles == 1..NumProfiles

\* request.user.profile.get('profile_id'): a tenant, or 0 for none
Users == 0..NumProfiles

ItemIds == 1..NumItems

ReservationIds == 1..NumReservations

NoRow ==
    [exists |-> FALSE, profile_id |-> 0, inventory_item_id |-> 0,
     quantity_reserved |-> 0, status |-> "none"]

NoBulk ==
    [exists |-> FALSE, status |-> "none", total_items |-> 0,
     processed_items |-> 0, failed_items |-> 0]

NoCall == [seq |-> 0, op |-> "none", profile_id |-> 0, updates |-> <<>>,
           response |-> "none"]

\* no notifier or KYC call has been made and nothing is cached
NotifierInit ==
    /\ audit = NoAudit
    /\ cache = [k \in KycKeys |-> "absent"]
    /\ chain = [k \in KycKeys |-> FALSE]
    /\ kyc = NoKyc

\* one item of one unit per item id, shared out among the tenants; no
\* reservation, alert or bulk operation yet
TablesInit ==
    /\ inventory = [i \in ItemIds |->
            [exists |-> TRUE, profile_id |-> ((i - 1) % NumProfiles) + 1,
             total_quantity |-> 1, available_quantity |-> 1,
             reserved_quantity |-> 0]]
    /\ reservation_rows = [id \in ReservationIds |-> NoRow]
    /\ alerts = [i \in ItemIds |-> 0]
    /\ bulk_operation = NoBulk
    /\ call = NoCall

ExtInit == NotifierInit /\ TablesInit

Init ==
    /\ ExtInit
    /\ item \in InitialItems
    /\ initial = item
    /\ reservations = [r \in Requests |-> NoReservation]
    /\ req = [r \in Requests |-> IdleRequest]
    /\ now = 0

\* requests are numbered in the order they arrive
MayStart(r) ==
    /\ req[r].pc = "idle"
    /\ \A s \in DOMAIN req : s < r => req[s].pc # "idle"

\* the handler returns: its instance is dropped, its response is kept
Finish(r, rec, response) ==
    [rec EXCEPT !.pc = "done", !.response = response, !.self = NoItem, !.held = 0]

\* ------------------------------------------- BaseInventoryViewSet.reserve
\* get_object(), request.data, the customer_user_id check and the
\* availability check on the loaded instance
ReserveCheck(r, quantities) ==
    /\ MayStart(r)
    /\ \E quantity \in quantities, customer_user_id \in BOOLEAN :
         LET rec == [IdleRequest EXCEPT !.op = "view_reserve", !.quantity = quantity,
                                        !.self = item]
         IN req' = [req EXCEPT ![r] =
                IF ~customer_user_id THEN Finish(r, rec, "400 customer_user_id is required")
                ELSE IF item.available_quantity < quantity
                     THEN Finish(r, rec, "400 Insufficient inventory available")
                     ELSE [rec EXCEPT !.pc = "create"]]
    /\ UNCHANGED <<item, reservations, initial, now, extVars>>

view_reserve_check(r) == ReserveCheck(r, RequestQuantities)

\* InventoryReservation.objects.create(...): quantity_reserved is a
\* PositiveIntegerField, the row is refused when it is negative
\* expiry_date = timezone.now() + timedelta(hours=expiry_hours)
view_reserve_create(r) ==
    /\ req[r].pc = "create"
    /\ IF req[r].quantity < 0
       THEN /\ req' = [req EXCEPT ![r] = Finish(r, req[r], "500 IntegrityError")]
            /\ UNCHANGED reservations
       ELSE /\ \E expiry_hours \in ExpiryHours :
                 reservations' = [reservations EXCEPT ![r] =
                    [exists |-> TRUE, quantity_reserved |-> req[r].quantity,
                     status |-> "pending", expiry_date |-> now + expiry_hours]]
            /\ req' = [req EXCEPT ![r].pc = "reserve"]
    /\ UNCHANGED <<item, initial, now, extVars>>

\* inventory_item.reserve(quantity), return value ignored, then the 201
view_reserve_ledger(r) ==
    /\ req[r].pc = "reserve"
    /\ LET res == reserve(req[r].self, req[r].quantity)
       IN /\ item' = SaveItem(res)
          /\ req' = [req EXCEPT ![r] =
                Finish(r, [req[r] EXCEPT !.ret = res.ret], "201")]
    /\ UNCHANGED <<reservations, initial, now, extVars>>

\* ------------------------------- BaseInventoryViewSet.release_reservation
\* inventory_item = self.get_object()
view_release_load(r) ==
    /\ MayStart(r)
    /\ req' = [req EXCEPT ![r] =
            [IdleRequest EXCEPT !.pc = "get", !.op = "view_release", !.self = item]]
    /\ UNCHANGED <<item, reservations, initial, now, extVars>>

\* InventoryReservation.objects.get(id=..., inventory_item_id=..., status='active')
\* (reservation_id is read from request.data here)
view_release_get(r) ==
    /\ req[r].pc = "get"
    /\ \E reservation_id \in DOMAIN reservations :
         LET reservation == reservations[reservation_id]
             rec == [req[r] EXCEPT !.reservation_id = reservation_id]
         IN req' = [req EXCEPT ![r] =
              IF reservation.exists /\ reservation.status = "active"
              THEN [rec EXCEPT !.pc = "release", !.held = reservation.quantity_reserved]
              ELSE Finish(r, rec, "404 Reservation not found")]
    /\ UNCHANGED <<item, reservations, initial, now, extVars>>

\* inventory_item.release_reservation(reservation.quantity_reserved)
view_release_ledger(r) ==
    /\ req[r].pc = "release"
    /\ LET res == release_reservation(req[r].self, req[r].held)
       IN /\ item' = SaveItem(res)
          /\ req' = [req EXCEPT ![r].pc = "cancel", ![r].self = res.self,
                                ![r].ret = res.ret]
    /\ UNCHANGED <<reservations, initial, now, extVars>>

\* reservation.status = 'cancelled'; reservation.save()
view_release_cancel(r) ==
    /\ req[r].pc = "cancel"
    /\ reservations' = [reservations EXCEPT ![req[r].reservation_id] =
            [exists |-> TRUE, quantity_reserved |-> req[r].held,
             status |-> "cancelled", expiry_date |-> @.expiry_date]]
    /\ req' = [req EXCEPT ![r] = Finish(r, req[r], "200")]
    /\ UNCHANGED <<item, initial, now, extVars>>

\* ------------------------------- a caller of one BaseInventoryItem method
\* the caller obtains the instance from its row
ledger_load(r) ==
    /\ MayStart(r)
    /\ req' = [req EXCEPT ![r] =
            [IdleRequest EXCEPT !.pc = "call", !.op = "ledger", !.self = item]]
    /\ UNCHANGED <<item, reservations, initial, now, extVars>>

\* the method body: guard, counter arithmetic on the instance, save()
LedgerCall(r, quantities) ==
    /\ req[r].pc = "call"
    /\ \E method \in Methods, quantity \in quantities :
         LET res == CallMethod(method, req[r].self, quantity)
         IN /\ item' = SaveItem(res)
            /\ req' = [req EXCEPT ![r] =
                  Finish(r, [req[r] EXCEPT !.method = method, !.quantity = quantity,
                                           !.ret = res.ret], res.ret)]
    /\ UNCHANGED <<reservations, initial, now, extVars>>

ledger_call(r) == LedgerCall(r, LedgerQuantities)

\* ------------------- InventoryReservationViewSet update / partial_update
\* `status` is a writable serializer field: any choice may be stored
reservation_update(id, status) ==
    /\ reservations[id].exists
    /\ reservations[id].status # status
    /\ reservations' = [reservations EXCEPT ![id].status = status]
    /\ UNCHANGED <<item, req, initial, now, extVars>>

Next ==
    \/ \E r \in Requests : view_reserve_check(r)
    \/ \E r \in Requests : view_reserve_create(r)
    \/ \E r \in Requests : view_reserve_ledger(r)
    \/ \E r \in Requests : view_release_load(r)
    \/ \E r \in Requests : view_release_get(r)
    \/ \E r \in Requests : view_release_ledger(r)
    \/ \E r \in Requests : view_release_cancel(r)
    \/ \E r \in Requests : ledger_load(r)
    \/ \E r \in Requests : ledger_call(r)
    \/ \E id \in Requests, status \in Statuses : reservation_update(id, status)

Spec == Init /\ [][Next]_vars

\* ------------------------------- only callers of the four model methods
NextLedger ==
    \/ \E r \in Requests : ledger_load(r)
    \/ \E r \in Requests : ledger_call(r)

SpecLedger == Init /\ [][NextLedger]_vars

\* ------------------------------------------ requests served one at a time
\* a single client that waits for each response before its next request,
\* working on a freshly created item
SeqRequests == 1..ScenarioSteps

ScenarioQuantities == {ScenarioQty}

SeqInit ==
    /\ ExtInit
    /\ item = [total_quantity |-> ScenarioTotal, available_quantity |-> ScenarioTotal,
               reserved_quantity |-> 0]
    /\ initial = item
    /\ reservations = [r \in SeqRequests |-> NoReservation]
    /\ req = [r \in SeqRequests |-> IdleRequest]
    /\ now = 0

\* no other request is being served
Serial(r) == \A s \in DOMAIN req \ {r} : req[s].pc \in {"idle", "done"}

\* an edit of a reservation row sent by the client as one of its requests
reservation_update_request(r) ==
    /\ MayStart(r)
    /\ \E id \in DOMAIN reservations, status \in Statuses :
         /\ reservations[id].exists
         /\ reservations[id].status # status
         /\ reservations' = [reservations EXCEPT ![id].status = status]
         /\ req' = [req EXCEPT ![r] =
                Finish(r, [IdleRequest EXCEPT !.op = "reservation_update",
                                              !.reservation_id = id], "200")]
    /\ UNCHANGED <<item, initial, now, extVars>>

SeqNext ==
    \/ \E r \in SeqRequests : Serial(r) /\ ReserveCheck(r, ScenarioQuantities)
    \/ \E r \in SeqRequests : Serial(r) /\ view_reserve_create(r)
    \/ \E r \in SeqRequests : Serial(r) /\ view_reserve_ledger(r)
    \/ \E r \in SeqRequests : Serial(r) /\ view_release_load(r)
    \/ \E r \in SeqRequests : Serial(r) /\ view_release_get(r)
    \/ \E r \in SeqRequests : Serial(r) /\ view_release_ledger(r)
    \/ \E r \in SeqRequests : Serial(r) /\ view_release_cancel(r)
    \/ \E r \in SeqRequests : Serial(r) /\ ledger_load(r)
    \/ \E r \in SeqRequests : Serial(r) /\ LedgerCall(r, ScenarioQuantities)
    \/ \E r \in SeqRequests : Serial(r) /\ reservation_update_request(r)

SpecSeq == SeqInit /\ [][SeqNext]_vars

\* ------------------------------------------- reservations that run out
\* timezone.now() moves on
tick ==
    /\ now < MaxTime
    /\ now' = now + 1
    /\ UNCHANGED <<item, reservations, req, initial, extVars>>

\* every unit of the item is held by a one-unit reservation made at hour 0
\* with some expiry_hours; each reservation is in one of the holding statuses
InitHeld ==
    /\ ExtInit
    /\ item = [total_quantity |-> NumRequests, available_quantity |-> 0,
               reserved_quantity |-> NumRequests]
    /\ initial = item
    /\ reservations \in [Requests ->
            [exists : {TRUE}, quantity_reserved : {1},
             status : {"pending", "confirmed", "active"},
             expiry_date : 1..(MaxTime + 1)]]
    /\ req = [r \in Requests |-> IdleRequest]
    /\ now = 0

\* the release handler is the only code that gives reserved units back
\* InventoryReservationViewSet.expiring_soon: the reservations it lists
expiring_soon ==
    {id \in DOMAIN reservations :
        /\ reservations[id].exists
        /\ reservations[id].status = "active"
        /\ reservations[id].expiry_date <= now + 1}

NextSweep ==
    \/ \E r \in Requests : view_release_load(r)
    \/ \E r \in Requests : view_release_get(r)
    \/ \E r \in Requests : view_release_ledger(r)
    \/ \E r \in Requests : view_release_cancel(r)
    \/ tick

SpecSweep == InitHeld /\ [][NextSweep]_vars

\* ... together with edits of the reservation rows
NextExpiry ==
    \/ NextSweep
    \/ \E id \in Requests, status \in Statuses : reservation_update(id, status)

SpecExpiry == InitHeld /\ [][NextExpiry]_vars

\* release requests are sent and served and the clock keeps moving; whether
\* a client edits a reservation row is up to the client
SpecExpiryFair ==
    /\ SpecExpiry
    /\ WF_vars(NextSweep)

\* --------------------------- BlockchainIntegration.log_inventory_action
\* the places at which the body can raise: json.dumps, the account and nonce
\* lookups, build_transaction, sign_transaction / send_raw_transaction
Faults == {"none", "json", "account", "build", "send"}

\* log_inventory_action that lets an exception of the send escape
log_inventory_action_raises(inventory_contract, fault) ==
    IF ~inventory_contract THEN "None"
    ELSE IF fault = "send" THEN "raised"
    ELSE IF fault # "none" THEN "None"
    ELSE "tx"

\* the whole body is inside try / except Exception: the result is the
\* transaction hash, or None when there is no contract or anything raised
log_inventory_action(inventory_contract, fault) ==
    IF ~inventory_contract THEN "None"
    ELSE IF fault # "none" THEN "None"
    ELSE "tx"

\* a caller logs an inventory action; whether INVENTORY_LOGGER_CONTRACT is
\* configured and whether the node answers is outside the program
call_log_inventory_action ==
    /\ \E inventory_contract \in BOOLEAN, fault \in Faults :
         audit' = [seq |-> 1 - audit.seq, contract |-> inventory_contract,
                   fault |-> fault,
                   ret |-> log_inventory_action(inventory_contract, fault)]
    /\ UNCHANGED <<ledgerVars, cache, chain, kyc, apiVars>>

\* the reserve handler next to notifier calls (the handler itself makes
\* none: its call is commented out)
NextAudit ==
    \/ \E r \in Requests : view_reserve_check(r)
    \/ \E r \in Requests : view_reserve_create(r)
    \/ \E r \in Requests : view_reserve_ledger(r)
    \/ call_log_inventory_action

SpecAudit == Init /\ [][NextAudit]_vars

\* ------------------- BlockchainIntegration.check_kyc_status / verify_kyc
CacheValues == {"absent", "True", "False"}

Str(b) == IF b THEN "True" ELSE "False"

KycResult(ret, cached, consulted, raised) ==
    [ret |-> ret, cached |-> cached, consulted |-> consulted, raised |-> raised]

\* where check_kyc_status can raise: cache.get, the contract call, cache.set
CheckFaults == {"none", "get", "call", "set"}

\* check_kyc_status that tests the cached value for truth instead of
\* `is not None`: a cached False is looked up again
check_kyc_status_truthy(cached, permission_contract, answer, fault) ==
    IF fault = "get" THEN KycResult("False", cached, FALSE, TRUE)
    ELSE IF cached = "True" THEN KycResult(cached, cached, FALSE, FALSE)
    ELSE IF permission_contract
         THEN IF fault \in {"call", "set"}
              THEN KycResult("False", cached, TRUE, TRUE)
              ELSE KycResult(Str(answer), Str(answer), TRUE, FALSE)
         ELSE KycResult("True", cached, FALSE, FALSE)

\* check_kyc_status: the cached value if there is one, else the contract's
\* answer (cached for an hour), else True when no contract is configured;
\* False on any exception
check_kyc_status(cached, permission_contract, answer, fault) ==
    IF fault = "get" THEN KycResult("False", cached, FALSE, TRUE)
    ELSE IF cached # "absent" THEN KycResult(cached, cached, FALSE, FALSE)
    ELSE IF permission_contract
         THEN IF fault \in {"call", "set"}
              THEN KycResult("False", cached, TRUE, TRUE)
              ELSE KycResult(Str(answer), Str(answer), TRUE, FALSE)
         ELSE KycResult("True", cached, FALSE, FALSE)

call_check_kyc_status(k) ==
    /\ \E permission_contract \in BOOLEAN, fault \in CheckFaults :
         LET res == check_kyc_status(cache[k], permission_contract, chain[k], fault)
         IN /\ cache' = [cache EXCEPT ![k] = res.cached]
            /\ kyc' = [seq |-> 1 - kyc.seq, op |-> "check_kyc_status", key |-> k,
                       contract |-> permission_contract, ret |-> res.ret,
                       consulted |-> res.consulted, raised |-> res.raised]
    /\ UNCHANGED <<ledgerVars, audit, chain, apiVars>>

\* where verify_kyc can raise: up to send_raw_transaction, while waiting
\* for the receipt, in cache.delete
VerifyFaults == {"none", "send", "receipt", "delete"}

\* verify_kyc: None without a contract or when anything raised; otherwise the
\* transaction is sent, the cache entry deleted and the hash returned.  The
\* receipt's status is not looked at: the transaction may have reverted.
call_verify_kyc(k) ==
    /\ \E permission_contract \in BOOLEAN, fault \in VerifyFaults, mined \in BOOLEAN :
         LET sent == permission_contract /\ fault # "send"
             ok == permission_contract /\ fault = "none"
         IN /\ chain' = [chain EXCEPT ![k] = IF sent /\ mined THEN TRUE ELSE @]
            /\ cache' = [cache EXCEPT ![k] = IF ok THEN "absent" ELSE @]
            /\ kyc' = [seq |-> 1 - kyc.seq, op |-> "verify_kyc", key |-> k,
                       contract |-> permission_contract,
                       ret |-> IF ok THEN "tx" ELSE "None",
                       consulted |-> FALSE,
                       raised |-> permission_contract /\ fault # "none"]
    /\ UNCHANGED <<ledgerVars, audit, apiVars>>

\* cache.set(cache_key, is_verified, 3600): the entry times out
cache_timeout(k) ==
    /\ cache[k] # "absent"
    /\ cache' = [cache EXCEPT ![k] = "absent"]
    /\ UNCHANGED <<ledgerVars, audit, chain, kyc, apiVars>>

NextKyc ==
    \/ \E k \in KycKeys : call_check_kyc_status(k)
    \/ \E k \in KycKeys : call_verify_kyc(k)
    \/ \E k \in KycKeys : cache_timeout(k)

SpecKyc == Init /\ [][NextKyc]_vars

\* ------------------------------------------------------- the CRUD API
\* Each handler is one step here (how the steps of concurrent handlers
\* interleave is the subject of the ledger specification above).

\* get_queryset(): the rows of the requesting user's tenant
Visible(row, profile_id) ==
    row.exists /\ profile_id # 0 /\ row.profile_id = profile_id

Called(op, profile_id, updates, response) ==
    [seq |-> call.seq + 1, op |-> op, profile_id |-> profile_id,
     updates |-> updates, response |-> response]

CounterFields == {"total_quantity", "available_quantity", "reserved_quantity"}

\* values a client writes into a counter field
CounterValues == 0..1

\* ModelViewSet.update / partial_update of an item: the three counters are
\* writable fields of BaseInventoryItemSerializer
item_update(profile_id, id) ==
    /\ call.seq < MaxCalls
    /\ Visible(inventory[id], profile_id)
    /\ \E field \in CounterFields, value \in CounterValues :
         inventory' = [inventory EXCEPT ![id] =
            CASE field = "total_quantity" -> [@ EXCEPT !.total_quantity = value]
              [] field = "available_quantity" -> [@ EXCEPT !.available_quantity = value]
              [] field = "reserved_quantity" -> [@ EXCEPT !.reserved_quantity = value]]
    /\ call' = Called("update", profile_id, <<>>, "200")
    /\ UNCHANGED <<ledgerVars, audit, cache, chain, kyc, reservation_rows, alerts,
                   bulk_operation>>

\* ModelViewSet.destroy of an item: the row is deleted; reservations refer
\* to it by a plain UUIDField and are not looked at
item_destroy(profile_id, id) ==
    /\ call.seq < MaxCalls
    /\ Visible(inventory[id], profile_id)
    /\ inventory' = [inventory EXCEPT ![id].exists = FALSE]
    /\ call' = Called("destroy", profile_id, <<>>, "204")
    /\ UNCHANGED <<ledgerVars, audit, cache, chain, kyc, reservation_rows, alerts,
                   bulk_operation>>

\* BaseInventoryViewSet.reserve for one unit, with a customer_user_id
api_reserve(profile_id, id) ==
    /\ call.seq < MaxCalls
    /\ Visible(inventory[id], profile_id)
    /\ IF inventory[id].available_quantity < 1
       THEN /\ call' = Called("reserve", profile_id, <<>>,
                              "400 Insufficient inventory available")
            /\ UNCHANGED <<inventory, reservation_rows>>
       ELSE /\ \E rid \in ReservationIds :
                 /\ ~reservation_rows[rid].exists
                 /\ reservation_rows' = [reservation_rows EXCEPT ![rid] =
                        [exists |-> TRUE, profile_id |-> inventory[id].profile_id,
                         inventory_item_id |-> id, quantity_reserved |-> 1,
                         status |-> "pending"]]
            /\ inventory' = [inventory EXCEPT ![id] = reserve(@, 1).self]
            /\ call' = Called("reserve", profile_id, <<>>, "201")
    /\ UNCHANGED <<ledgerVars, audit, cache, chain, kyc, alerts, bulk_operation>>

\* BaseInventoryViewSet.release_reservation: the reservation is looked up by
\* id, inventory_item_id and status='active'
api_release_reservation(profile_id, id, reservation_id) ==
    /\ call.seq < MaxCalls
    /\ Visible(inventory[id], profile_id)
    /\ LET reservation == reservation_rows[reservation_id]
       IN IF /\ reservation.exists
             /\ reservation.inventory_item_id = id
             /\ reservation.status = "active"
          THEN /\ inventory' = [inventory EXCEPT ![id] =
                      release_reservation(@, reservation.quantity_reserved).self]
               /\ reservation_rows' =
                      [reservation_rows EXCEPT ![reservation_id].status = "cancelled"]
               /\ call' = Called("release_reservation", profile_id, <<>>, "200")
          ELSE /\ call' = Called("release_reservation", profile_id, <<>>,
                                 "404 Reservation not found")
               /\ UNCHANGED <<inventory, reservation_rows>>
    /\ UNCHANGED <<ledgerVars, audit, cache, chain, kyc, alerts, bulk_operation>>

\* InventoryReservationViewSet update: status and inventory_item_id are
\* writable fields of InventoryReservationSerializer
api_reservation_update(profile_id, reservation_id) ==
    /\ call.seq < MaxCalls
    /\ Visible(reservation_rows[reservation_id], profile_id)
    /\ \E status \in Statuses, inventory_item_id \in ItemIds :
         reservation_rows' = [reservation_rows EXCEPT
            ![reservation_id].status = status,
            ![reservation_id].inventory_item_id = inventory_item_id]
    /\ call' = Called("reservation_update", profile_id, <<>>, "200")
    /\ UNCHANGED <<ledgerVars, audit, cache, chain, kyc, inventory, alerts,
                   bulk_operation>>

\* InventoryAlertViewSet create: a client stores an unresolved low_stock
\* alert for an item id; no other code creates InventoryAlert rows
alert_create(profile_id, id) ==
    /\ call.seq < MaxCalls
    /\ alerts[id] < MaxAlerts
    /\ alerts' = [alerts EXCEPT ![id] = @ + 1]
    /\ call' = Called("alert_create", profile_id, <<>>, "201")
    /\ UNCHANGED <<ledgerVars, audit, cache, chain, kyc, inventory,
                   reservation_rows, bulk_operation>>

\* ---------------------------------------- BaseInventoryViewSet.bulk_update
\* an entry of `updates`: something that is no dict, a dict without id, or a
\* dict with an id and a value for available_quantity
BulkEntries ==
    {[kind |-> "not_dict", id |-> 0, value |-> 0],
     [kind |-> "dict", id |-> 0, value |-> 0]}
    \cup [kind : {"dict"}, id : ItemIds, value : {-1, 1}]

BulkUpdates == UNION {[1..n -> BulkEntries] : n \in 0..MaxEntries}

\* the loop after `n` entries: the table, the two counters, whether item_id
\* has been assigned, whether an exception left the loop
RECURSIVE BulkLoop(_, _, _)
BulkLoop(updates, n, profile_id) ==
    IF n = 0
    THEN [inventory |-> inventory, successful_updates |-> 0, failed_updates |-> 0,
          item_id_bound |-> FALSE, raised |-> FALSE]
    ELSE LET st == BulkLoop(updates, n - 1, profile_id)
             update_data == updates[n]
             item_id == update_data.id
         IN IF st.raised THEN st
            \* update_data.get raises; the handler formats item_id, which is
            \* unbound when no earlier entry assigned it
            ELSE IF update_data.kind = "not_dict"
                 THEN IF st.item_id_bound
                      THEN [st EXCEPT !.failed_updates = @ + 1]
                      ELSE [st EXCEPT !.raised = TRUE]
            \* if not item_id: continue
            ELSE IF item_id = 0
                 THEN [st EXCEPT !.item_id_bound = TRUE]
            \* self.get_queryset().get(id=item_id) raises DoesNotExist
            ELSE IF ~Visible(st.inventory[item_id], profile_id)
                 THEN [st EXCEPT !.item_id_bound = TRUE, !.failed_updates = @ + 1]
            \* item.save() refuses a negative PositiveIntegerField
            ELSE IF update_data.value < 0
                 THEN [st EXCEPT !.item_id_bound = TRUE, !.failed_updates = @ + 1]
            ELSE [st EXCEPT !.item_id_bound = TRUE, !.successful_updates = @ + 1,
                            !.inventory[item_id].available_quantity = update_data.value]

bulk_update(profile_id) ==
    /\ call.seq < MaxCalls
    /\ \E updates \in BulkUpdates :
         LET st == BulkLoop(updates, Len(updates), profile_id)
         IN \* if not updates: 400
            IF Len(updates) = 0
            THEN /\ call' = Called("bulk_update", profile_id, updates,
                                   "400 No updates provided")
                 /\ UNCHANGED <<inventory, bulk_operation>>
            \* InventoryBulkOperation.objects.create(profile_id=None, ...)
            ELSE IF profile_id = 0
            THEN /\ call' = Called("bulk_update", profile_id, updates,
                                   "500 IntegrityError")
                 /\ UNCHANGED <<inventory, bulk_operation>>
            ELSE IF st.raised
            THEN /\ inventory' = st.inventory
                 /\ bulk_operation' =
                        [exists |-> TRUE, status |-> "pending",
                         total_items |-> Len(updates), processed_items |-> 0,
                         failed_items |-> 0]
                 /\ call' = Called("bulk_update", profile_id, updates,
                                   "500 UnboundLocalError")
            ELSE /\ inventory' = st.inventory
                 /\ bulk_operation' =
                        [exists |-> TRUE, status |-> "completed",
                         total_items |-> Len(updates),
                         processed_items |-> st.successful_updates,
                         failed_items |-> st.failed_updates]
                 /\ call' = Called("bulk_update", profile_id, updates, "200")
    /\ UNCHANGED <<ledgerVars, audit, cache, chain, kyc, reservation_rows, alerts>>

\* the ledger of the first part is not in use here
LedgerIdle ==
    /\ item = NoItem
    /\ initial = NoItem
    /\ reservations = [r \in Requests |-> NoReservation]
    /\ req = [r \in Requests |-> IdleRequest]
    /\ now = 0

ApiInit == LedgerIdle /\ ExtInit

NextApi ==
    \/ \E profile_id \in Users, id \in ItemIds : item_update(profile_id, id)
    \/ \E profile_id \in Users, id \in ItemIds : item_destroy(profile_id, id)
    \/ \E profile_id \in Users, id \in ItemIds : api_reserve(profile_id, id)
    \/ \E profile_id \in Users, id \in ItemIds, reservation_id \in ReservationIds :
          api_release_reservation(profile_id, id, reservation_id)
    \/ \E profile_id \in Users, reservation_id \in ReservationIds :
          api_reservation_update(profile_id, reservation_id)
    \/ \E profile_id \in Users, id \in ItemIds : alert_create(profile_id, id)
    \/ \E profile_id \in Users : bulk_update(profile_id)

SpecApi == ApiInit /\ [][NextApi]_vars

\* ================================================================ claims
Done(r) == req[r].pc = "done"

AllDone == \A r \in Requests : Done(r)

\* units that are neither available nor reserved
Occupied(i) == i.total_quantity - i.available_quantity - i.reserved_quantity

WithinTotal(i) ==
    /\ i.available_quantity >= 0
    /\ i.reserved_quantity >= 0
    /\ i.available_quantity + i.reserved_quantity <= i.total_quantity

\* the statuses in which a reservation still holds quantity
NonTerminal == {"pending", "confirmed", "active"}

RECURSIVE SumHeld(_)
SumHeld(S) ==
    IF S = {} THEN 0
    ELSE LET r == CHOOSE x \in S : TRUE
         IN (IF reservations[r].exists /\ reservations[r].status \in NonTerminal
             THEN reservations[r].quantity_reserved ELSE 0) + SumHeld(S \ {r})

\* a step in which request r runs the body of `method` on its instance
MethodStep(r, method) ==
    \/ /\ req[r].pc = "call" /\ req'[r].pc = "done" /\ req'[r].method = method
    \/ /\ method = "reserve" /\ req[r].pc = "reserve" /\ req'[r].pc = "done"
    \/ /\ method = "release_reservation" /\ req[r].pc = "release"
       /\ req'[r].pc = "cancel"

\* the quantity that step passes to the method
StepQuantity(r) == IF req[r].pc = "release" THEN req[r].held ELSE req'[r].quantity

\* C1: available_quantity >= 0, reserved_quantity >= 0 and
\* available_quantity + reserved_quantity <= total_quantity hold of the item
\* row in every reachable state.
C1_CountersWithinTotal == WithinTotal(item)

\* C2: whenever no request is in flight, only reserve requests, release
\* requests and occupy calls have been served, and every reservation row is
\* as its reserve request stored it (pending), the quantities of the
\* non-terminal reservations add up to the item's reserved_quantity.
C2_ReservedMatchesReservations ==
    ( /\ \A r \in Requests : req[r].pc \in {"idle", "done"}
      /\ \A r \in Requests :
            \/ req[r].op \in {"none", "view_reserve", "view_release"}
            \/ req[r].op = "ledger" /\ req[r].method = "occupy"
      /\ \A r \in Requests :
            reservations[r].exists => reservations[r].status = "pending" )
    => SumHeld(Requests) = item.reserved_quantity

\* C3: when every request is a reserve request for quantity 1 (with a
\* customer), all have returned, and the item started with
\* available_quantity = k < N, then exactly k got 201, N - k got the
\* insufficient-inventory error, available_quantity is 0 and
\* reserved_quantity grew by k.
C3_ConcurrentReserveExact ==
    ( /\ AllDone
      /\ \A r \in Requests :
            /\ req[r].op = "view_reserve"
            /\ req[r].quantity = 1
            /\ req[r].response # "400 customer_user_id is required"
      /\ initial.available_quantity < NumRequests )
    => /\ Cardinality({r \in Requests : req[r].response = "201"})
            = initial.available_quantity
       /\ Cardinality({r \in Requests :
                req[r].response = "400 Insufficient inventory available"})
            = NumRequests - initial.available_quantity
       /\ item.available_quantity = 0
       /\ item.reserved_quantity
            = initial.reserved_quantity + initial.available_quantity

\* the calls that reported success (True, or None for make_available)
Succeeded == {r \in Requests : req[r].ret \in {"True", "None"}}

Orders(S) ==
    {o \in [1..Cardinality(S) -> S] :
        \A i, j \in 1..Cardinality(S) : o[i] = o[j] => i = j}

RECURSIVE ApplyInOrder(_, _)
ApplyInOrder(o, n) ==
    IF n = 0 THEN initial
    ELSE CallMethod(req[o[n]].method, ApplyInOrder(o, n - 1), req[o[n]].quantity).self

\* C4: when every request was a call of one of the four methods and all have
\* returned, the item row equals the result of applying the successful calls
\* one after the other, in some order, to the initial row.
C4_Linearizable ==
    (AllDone /\ \A r \in Requests : req[r].op = "ledger")
    => \E o \in Orders(Succeeded) : ApplyInOrder(o, Cardinality(Succeeded)) = item

\* C5: every execution of reserve(quantity) on an instance returns False and
\* writes nothing exactly when quantity > available_quantity; otherwise it
\* returns True and one save stores available_quantity - quantity and
\* reserved_quantity + quantity, total_quantity untouched.
C5_ReserveExact ==
    [][\A r \in Requests : MethodStep(r, "reserve") =>
        LET self == req[r].self
            quantity == StepQuantity(r)
        IN IF quantity > self.available_quantity
           THEN req'[r].ret = "False" /\ item' = item
           ELSE /\ req'[r].ret = "True"
                /\ item' = [total_quantity |-> self.total_quantity,
                            available_quantity |-> self.available_quantity - quantity,
                            reserved_quantity |-> self.reserved_quantity + quantity]
      ]_vars

\* a reserve call that moved at least one unit has returned True, and
\* another reserve call has returned False
C5_Witness ==
    /\ \E r \in Requests :
          /\ Done(r) /\ req[r].op = "ledger" /\ req[r].method = "reserve"
          /\ req[r].ret = "True" /\ req[r].quantity >= 1
          /\ item.reserved_quantity >= 1
    /\ \E r \in Requests :
          /\ Done(r) /\ req[r].method = "reserve" /\ req[r].ret = "False"

\* C6: every execution of release_reservation(quantity) on an instance
\* returns False and writes nothing exactly when quantity > reserved_quantity;
\* otherwise it returns True and stores reserved_quantity - quantity and
\* available_quantity + quantity.
C6_ReleaseExact ==
    [][\A r \in Requests : MethodStep(r, "release_reservation") =>
        LET self == req[r].self
            quantity == StepQuantity(r)
        IN IF quantity > self.reserved_quantity
           THEN req'[r].ret = "False" /\ item' = item
           ELSE /\ req'[r].ret = "True"
                /\ item' = [total_quantity |-> self.total_quantity,
                            available_quantity |-> self.available_quantity + quantity,
                            reserved_quantity |-> self.reserved_quantity - quantity]
      ]_vars

\* a release_reservation call gave at least one reserved unit back
C6_Witness ==
    \E r \in Requests :
        /\ Done(r) /\ req[r].op = "ledger" /\ req[r].method = "release_reservation"
        /\ req[r].ret = "True" /\ req[r].quantity >= 1
        /\ item.reserved_quantity = 0
        /\ item.available_quantity = initial.available_quantity

\* C7: every execution of occupy(quantity) on an instance returns False and
\* writes nothing exactly when quantity > reserved_quantity; otherwise it
\* returns True, stores reserved_quantity - quantity, leaves
\* available_quantity and total_quantity as they were, and the occupied count
\* total - available - reserved grows by quantity.
C7_OccupyExact ==
    [][\A r \in Requests : MethodStep(r, "occupy") =>
        LET self == req[r].self
            quantity == StepQuantity(r)
        IN IF quantity > self.reserved_quantity
           THEN req'[r].ret = "False" /\ item' = item
           ELSE /\ req'[r].ret = "True"
                /\ item'.reserved_quantity = self.reserved_quantity - quantity
                /\ item'.available_quantity = self.available_quantity
                /\ item'.total_quantity = self.total_quantity
                /\ Occupied(item') = Occupied(self) + quantity
      ]_vars

\* an occupy call turned at least one reserved unit into an occupied one
C7_Witness ==
    \E r \in Requests :
        /\ Done(r) /\ req[r].op = "ledger" /\ req[r].method = "occupy"
        /\ req[r].ret = "True" /\ req[r].quantity >= 1
        /\ Occupied(item) = Occupied(initial) + req[r].quantity

\* C8: make_available(quantity) leaves the row as it was (and fails)
\* whenever available_quantity + quantity + reserved_quantity would exceed
\* total_quantity; otherwise it adds quantity to available_quantity.
C8_MakeAvailableCapacity ==
    [][\A r \in Requests : MethodStep(r, "make_available") =>
        LET self == req[r].self
            quantity == StepQuantity(r)
        IN IF self.available_quantity + quantity + self.reserved_quantity
                > self.total_quantity
           THEN item' = item /\ req'[r].ret # "None"
           ELSE item' = [self EXCEPT !.available_quantity = @ + quantity]
      ]_vars

\* C9: when a reserve request for quantity >= 1 reaches its counter update
\* and the row no longer has that quantity available (a concurrent request
\* consumed it after this request's check), the request ends with the
\* insufficient-inventory error and no reservation row of it exists.
C9_NoReservationWithoutShift ==
    [][\A r \in Requests :
        ( /\ req[r].pc = "reserve" /\ req'[r].pc = "done"
          /\ req[r].quantity >= 1
          /\ item.available_quantity < req[r].quantity )
        => /\ req'[r].response = "400 Insufficient inventory available"
           /\ ~reservations'[r].exists
      ]_vars

\* C10: a reserve request with quantity < 1 never gets a reservation row and
\* never a 201.
C10_QuantityValidated ==
    \A r \in Requests :
        (req[r].op = "view_reserve" /\ req[r].quantity < 1) =>
            /\ ~reservations[r].exists
            /\ req[r].response # "201"

Terminal == {"expired", "cancelled"}

\* the step in which release request r looks its reservation up
LookupStep(r) == req[r].pc = "get" /\ req'[r].pc # "get"

\* C11: a release request that names an existing reservation (of at least
\* one unit) whose status is pending, confirmed or active is accepted: it goes on to give the
\* quantity back and to cancel the reservation.
C11_ReleaseFromNonTerminal ==
    [][\A r \in DOMAIN req : LookupStep(r) =>
        LET reservation == reservations[req'[r].reservation_id]
        IN ( /\ reservation.exists /\ reservation.status \in NonTerminal
             /\ reservation.quantity_reserved >= 1 )
            => req'[r].pc = "release"
      ]_vars

\* C12: a release request that names an existing reservation whose status
\* is expired or cancelled ends with an error other than the one unknown ids
\* get, and changes neither the reservation rows nor the item row.
C12_AlreadyTerminalDistinct ==
    [][\A r \in DOMAIN req : LookupStep(r) =>
        LET reservation == reservations[req'[r].reservation_id]
        IN (reservation.exists /\ reservation.status \in Terminal)
            => /\ req'[r].pc = "done"
               /\ req'[r].response # "404 Reservation not found"
               /\ reservations' = reservations
               /\ item' = item
      ]_vars

\* C13: whenever a release request stores `cancelled`, its own ledger
\* release returned True, and no other release request on the same
\* reservation has a ledger release that returned True.
C13_ExactlyOneRelease ==
    [][\A r \in DOMAIN req : (req[r].pc = "cancel" /\ req'[r].pc = "done") =>
        /\ req[r].ret = "True"
        /\ \A other \in DOMAIN req \ {r} :
              ~ ( /\ req[other].op = "view_release"
                  /\ req[other].reservation_id = req[r].reservation_id
                  /\ req[other].ret = "True" )
      ]_vars

\* C15: a reservation whose status is expired or cancelled never changes
\* status again, whatever operation is served.
C15_TerminalStatusesStay ==
    [][\A id \in DOMAIN reservations :
        (reservations[id].exists /\ reservations[id].status \in Terminal)
            => reservations'[id].status = reservations[id].status
      ]_vars

\* request r is a reserve request that was answered 201
Reserved201(r) == Done(r) /\ req[r].op = "view_reserve" /\ req[r].response = "201"

\* request r is a finished call of `method` with the quantity request 1 reserved
CalledWithSame(r, method) ==
    /\ Done(r) /\ req[r].op = "ledger" /\ req[r].method = method
    /\ req[r].quantity = req[1].quantity

\* no request after r has been sent yet
NoneAfter(r) == \A s \in DOMAIN req : s > r => req[s].pc = "idle"

Counters(total, available, reserved) ==
    [total_quantity |-> total, available_quantity |-> available,
     reserved_quantity |-> reserved]

\* C14: with requests served one at a time on a fresh item, when the first
\* request reserved at least one unit (201) and the second, a release request
\* naming the reservation the first one made, has returned, then
\* available_quantity and reserved_quantity are what they were before the
\* reserve and the reservation is cancelled.
C14_ReserveReleaseRoundTrip ==
    ( /\ Reserved201(1) /\ req[1].quantity >= 1
      /\ Done(2) /\ req[2].op = "view_release" /\ req[2].reservation_id = 1
      /\ NoneAfter(2) )
    => /\ item.available_quantity = initial.available_quantity
       /\ item.reserved_quantity = initial.reserved_quantity
       /\ reservations[1].status = "cancelled"

\* C20: on an item created with total = available = T and reserved = 0, with
\* requests served one at a time: after a reserve request for q answered 201
\* the row is (T, T - q, q) and the new reservation is pending with quantity
\* q; after occupy(q) the row is (T, T - q, 0); after make_available(q) the
\* row is (T, T, 0).  (The scenario has T = 10 and q = 3.)
C20_ScenarioTrace ==
    LET T == initial.total_quantity
        q == req[1].quantity
    IN ( /\ initial = Counters(T, T, 0)
         /\ Reserved201(1) )
       => /\ NoneAfter(1) =>
               /\ item = Counters(T, T - q, q)
               /\ reservations[1] = [exists |-> TRUE, quantity_reserved |-> q,
                                      status |-> "pending",
                                      expiry_date |-> reservations[1].expiry_date]
          /\ CalledWithSame(2, "occupy") =>
               /\ req[2].ret = "True"
               /\ NoneAfter(2) => item = Counters(T, T - q, 0)
               /\ (CalledWithSame(3, "make_available") /\ NoneAfter(3))
                     => item = Counters(T, T, 0)

\* the scenario has run to its end: reserve(3), occupy(3), make_available(3)
\* on the item of 10, which is back at 10 available
C20_Witness ==
    /\ initial = Counters(ScenarioTotal, ScenarioTotal, 0)
    /\ Reserved201(1) /\ req[1].quantity = ScenarioQty
    /\ CalledWithSame(2, "occupy")
    /\ CalledWithSame(3, "make_available")
    /\ NoneAfter(3)
    /\ item = Counters(ScenarioTotal, ScenarioTotal, 0)
    /\ reservations[1].status = "pending"

\* a step in which reservation id leaves a holding status for `expired`
BecomesExpired(id) ==
    /\ reservations[id].exists
    /\ reservations[id].status # "expired"
    /\ reservations'[id].status = "expired"

\* C16: the step that makes a holding reservation (pending, confirmed or
\* active, of at least one unit) expired gives its quantity back to the item,
\* once: reserved_quantity drops and available_quantity grows by
\* quantity_reserved.
C16_ExpireReleasesOnce ==
    [][\A id \in DOMAIN reservations :
        ( /\ BecomesExpired(id)
          /\ reservations[id].status \in NonTerminal
          /\ reservations[id].quantity_reserved >= 1 )
        => /\ item'.reserved_quantity
                = item.reserved_quantity - reservations[id].quantity_reserved
           /\ item'.available_quantity
                = item.available_quantity + reservations[id].quantity_reserved
      ]_vars

\* the quantities of the reservations that have ended (expired or cancelled)
RECURSIVE SumEnded(_)
SumEnded(S) ==
    IF S = {} THEN 0
    ELSE LET r == CHOOSE x \in S : TRUE
         IN (IF reservations[r].exists /\ reservations[r].status \in Terminal
             THEN reservations[r].quantity_reserved ELSE 0) + SumEnded(S \ {r})

\* C17: with release handlers running concurrently on reservations that hold
\* every unit of the item, once no handler is in flight the units given back
\* to available_quantity are no more than the quantities of the reservations
\* that have ended: no reservation's quantity was given back twice.
C17_NoDoubleRelease ==
    (\A r \in DOMAIN req : req[r].pc \in {"idle", "done"})
    => item.available_quantity
         <= initial.available_quantity + SumEnded(DOMAIN reservations)

\* a holding reservation whose expiry_date has passed
Overdue(id) ==
    /\ reservations[id].exists
    /\ reservations[id].status \in NonTerminal
    /\ now > reservations[id].expiry_date

\* C18: under fair scheduling every holding reservation whose expiry_date
\* has passed eventually has status expired.
C18_OverdueEventuallyExpired ==
    \A id \in Requests : Overdue(id) ~> (reservations[id].status = "expired")

\* C19: a reservation becomes expired only in a step taken when now is past
\* its expiry_date and its status is pending, confirmed or active.
C19_ExpiredOnlyWhenOverdue ==
    [][\A id \in DOMAIN reservations : BecomesExpired(id) => Overdue(id)]_vars

\* the methods that have a guard and report its failure with False
GuardedMethods == {"reserve", "release_reservation", "occupy"}

\* C25: an execution of reserve, release_reservation or occupy that returns
\* False writes nothing: the item row is what it was before the call (even
\* when the caller's instance is older than the row, so that a save would
\* show).
C25_FailureChangesNothing ==
    [][\A r \in DOMAIN req : \A method \in GuardedMethods :
        (MethodStep(r, method) /\ req'[r].ret = "False") =>
            item' = item
      ]_vars

\* a guarded call for at least one unit has returned False and the row holds
\* what another call wrote
C25_Witness ==
    \E r \in Requests :
        /\ Done(r) /\ req[r].op = "ledger" /\ req[r].method \in GuardedMethods
        /\ req[r].ret = "False" /\ req[r].quantity >= 1
        /\ item # initial

\* C26: no execution of the four methods changes total_quantity, on the row
\* or relative to the instance it was called on; an execution of reserve or
\* release_reservation that writes stores the same
\* available_quantity + reserved_quantity its instance had.
C26_TotalAndSumPreserved ==
    [][\A r \in DOMAIN req : \A method \in Methods : MethodStep(r, method) =>
        LET self == req[r].self
        IN /\ item'.total_quantity = item.total_quantity
           /\ item'.total_quantity = self.total_quantity
           /\ (method \in {"reserve", "release_reservation"} /\ item' # item)
                 => item'.available_quantity + item'.reserved_quantity
                      = self.available_quantity + self.reserved_quantity
      ]_vars

\* a reserve call has moved at least one unit from available to reserved
C26_Witness ==
    \E r \in Requests :
        /\ Done(r) /\ req[r].method = "reserve" /\ req[r].ret = "True"
        /\ req[r].quantity >= 1
        /\ item # initial
        /\ item.total_quantity = initial.total_quantity
        /\ item.available_quantity + item.reserved_quantity
             = initial.available_quantity + initial.reserved_quantity

\* C24: every log_inventory_action call returns a transaction id or None,
\* whether or not a contract is configured and wherever it raises, and the
\* call changes neither the item row nor a reservation nor a request's
\* outcome, whatever it returned.
C24_NotifierNeverPropagates ==
    [][audit'.seq # audit.seq =>
        /\ audit'.ret \in {"tx", "None"}
        /\ (~audit'.contract \/ audit'.fault # "none") => audit'.ret = "None"
        /\ item' = item
        /\ reservations' = reservations
        /\ req' = req
      ]_vars

\* a reserve request has moved units and got its 201, and a notifier call
\* that raised while sending has returned None
C24_Witness ==
    /\ audit.contract /\ audit.fault = "send" /\ audit.ret = "None"
    /\ \E r \in Requests :
          /\ req[r].op = "view_reserve" /\ req[r].response = "201"
          /\ req[r].quantity >= 1
          /\ reservations[r].status = "pending"
    /\ item.reserved_quantity >= 1

\* C30: a check_kyc_status call that raises returns False; one that finds a
\* cached value returns it, does not consult the contract and leaves the
\* cache alone; one that finds nothing cached (with a contract configured)
\* consults the contract, returns its answer and caches it.  A verify_kyc
\* call that returns a transaction hash leaves no cached entry for its key.
C30_KycCache ==
    [][kyc'.seq # kyc.seq =>
        LET k == kyc'.key
        IN /\ kyc'.op = "check_kyc_status" =>
                /\ kyc'.raised => kyc'.ret = "False"
                /\ (~kyc'.raised /\ cache[k] # "absent") =>
                      /\ kyc'.ret = cache[k]
                      /\ ~kyc'.consulted
                      /\ cache' = cache
                /\ (~kyc'.raised /\ cache[k] = "absent" /\ kyc'.contract) =>
                      /\ kyc'.consulted
                      /\ kyc'.ret = Str(chain[k])
                      /\ cache' = [cache EXCEPT ![k] = Str(chain[k])]
                /\ chain' = chain
           /\ (kyc'.op = "verify_kyc" /\ kyc'.ret # "None") =>
                cache'[k] = "absent"
      ]_vars

\* False was cached for a key, verify_kyc then succeeded for it, and the
\* next check read the contract again and cached True
C30_Witness ==
    \E k \in KycKeys :
        /\ kyc.op = "check_kyc_status" /\ kyc.key = k
        /\ kyc.consulted /\ kyc.ret = "True"
        /\ chain[k] /\ cache[k] = "True"

\* C28: at every moment the expiring-soon query lists exactly the
\* reservations that are pending, confirmed or active and whose expiry_date
\* is at most one hour ahead.
C28_ExpiringSoonExact ==
    expiring_soon =
        {id \in DOMAIN reservations :
            /\ reservations[id].exists
            /\ reservations[id].status \in NonTerminal
            /\ reservations[id].expiry_date <= now + 1}

\* a step in which the CRUD API served a request
ApiStep == call'.seq # call.seq

ItemCounters(row) ==
    <<row.total_quantity, row.available_quantity, row.reserved_quantity>>

\* C21: the counters of an item row change only in a step that serves a
\* reserve or a release_reservation request (the handlers that call the
\* ledger methods); no update, bulk_update or other request changes them.
C21_CountersOnlyThroughLedger ==
    [][\A id \in ItemIds :
        ( /\ inventory[id].exists /\ inventory'[id].exists
          /\ ItemCounters(inventory'[id]) # ItemCounters(inventory[id]) )
        => call'.op \in {"reserve", "release_reservation"}
      ]_vars

\* C22: in every reachable state the inventory_item_id of every reservation
\* row is the id of an item row that exists.
C22_ReservedItemsExist ==
    \A id \in ReservationIds :
        reservation_rows[id].exists
            => inventory[reservation_rows[id].inventory_item_id].exists

\* available_quantity / total_quantity is below 10 %
LowStock(row) ==
    row.total_quantity > 0 /\ row.available_quantity * 10 < row.total_quantity

\* C23: after a reserve or release_reservation request that changed an item
\* and left it below the low-stock threshold, an unresolved low_stock alert
\* exists for the item.
C23_LowStockAlertRaised ==
    [][(ApiStep /\ call'.op \in {"reserve", "release_reservation"}) =>
        \A id \in ItemIds :
            ( /\ inventory'[id].exists
              /\ inventory'[id] # inventory[id]
              /\ LowStock(inventory'[id]) )
            => alerts'[id] >= 1
      ]_vars

\* C27: a request changes only item rows and reservation rows of the
\* requesting user's tenant, a user without profile_id changes none, and a
\* reservation row that a request creates carries the profile_id of the item
\* it names.
C27_TenantIsolation ==
    [][ApiStep =>
        /\ \A id \in ItemIds :
              inventory'[id] # inventory[id]
                  => Visible(inventory[id], call'.profile_id)
        /\ \A id \in ReservationIds :
              reservation_rows'[id] # reservation_rows[id] =>
                  IF reservation_rows[id].exists
                  THEN Visible(reservation_rows[id], call'.profile_id)
                  ELSE /\ reservation_rows'[id].profile_id = call'.profile_id
                       /\ reservation_rows'[id].profile_id
                            = inventory[reservation_rows'[id].inventory_item_id].profile_id
      ]_vars

\* the entries of `updates` that carry no id
LackingId(updates) ==
    {n \in DOMAIN updates : updates[n].kind = "dict" /\ updates[n].id = 0}

\* C29: a bulk_update request of a tenant's user with at least one entry
\* returns normally and leaves the bulk operation record completed, with
\* total_items the number of entries, processed_items + failed_items <=
\* total_items, and equality exactly when no entry lacked an id.
C29_BulkUpdateCompletes ==
    [][( /\ ApiStep /\ call'.op = "bulk_update"
         /\ call'.profile_id # 0 /\ Len(call'.updates) >= 1 ) =>
        /\ call'.response = "200"
        /\ bulk_operation'.status = "completed"
        /\ bulk_operation'.total_items = Len(call'.updates)
        /\ bulk_operation'.processed_items + bulk_operation'.failed_items
             <= bulk_operation'.total_items
        /\ ( bulk_operation'.processed_items + bulk_operation'.failed_items
                = bulk_operation'.total_items )
             <=> LackingId(call'.updates) = {}
      ]_vars

====
